---- MODULE Spec2Model ----
(***************************************************************************)
(* Model of the shared tools library of mind-graph (src/tools/lib):        *)
(* APIClient.request, TenantUtils (namespace resolution, capabilities),    *)
(* and DgraphOperations.drop_all_data / clear_namespace_data, together     *)
(* with the backend they talk to.  Every HTTP request is one step; the     *)
(* backend's answer to it is a nondeterministic input of that step.        *)
(***************************************************************************)
EXTENDS Integers, Sequences, FiniteSets, TLC

VARIABLES
    nodes,              \* backend: namespace -> set of node uids
    edges,              \* backend: namespace -> set of edge uids
    client_tenant_id,   \* APIClient.tenant_id
    ops_tenant_id,      \* DgraphOperations.tenant_id
    namespace_cache,    \* TenantUtils._namespace_cache: tenant -> token or Null
    pc,                 \* position inside the running operation, "idle" between calls
    call,               \* the running (or last) call: operation and arguments
    loc,                \* locals of the running operation
    log,                \* HTTP requests issued by the running (or last) call, in order
    result,             \* outcome of the last call: return value or raised error
    prev,               \* summary of the call completed before the current one
    calls               \* number of calls started

vars == <<nodes, edges, client_tenant_id, ops_tenant_id, namespace_cache,
          pc, call, loc, log, result, prev, calls>>

backend == <<nodes, edges>>
context == <<client_tenant_id, ops_tenant_id>>

----------------------------------------------------------------------------
(* Bounds of the model *)

MaxNode == 3
MaxDropCalls == 1
MaxClearCalls == 2
MaxBatch == 2
MaxTenantCalls == 2
MaxRequestCalls == 1
MaxToolCalls == 1
MaxRunCalls == 1
MaxContextCalls == 3
MaxToolItems == 3
\* drop_data.py lines 106 and 138 (batch_size = 100), scaled to the lists of the model
ToolBatchSize == 2

----------------------------------------------------------------------------
(* Python values *)

Null == "None"
PyTrue == [py |-> "bool", b |-> TRUE]
Truthy(x) == x \notin {Null, ""}
Or(a, b) == IF Truthy(a) THEN a ELSE b
Min(a, b) == IF a <= b THEN a ELSE b

NoResult == [status |-> "none"]
Return(v) == [status |-> "return", value |-> v]
Raise(e, m) == [status |-> "raise", exc |-> e, msg |-> m]
Returned(r) == r.status = "return"
Raised(r, e) == r.status = "raise" /\ r.exc = e
\* an f-string is the sequence of its pieces
Contains(msg, piece) == \E k \in DOMAIN msg : msg[k] = piece

----------------------------------------------------------------------------
(* Tenants, namespaces and graph identifiers *)

TenantIds == {"default", "test-tenant", "acme", "bad id"}
TenantArgs == TenantIds \cup {Null}
Namespaces == {"0x0", "0x1", "0x2"}
ConfirmArgs == {Null, "", "0x0", "0x1", "0x2", "0x99"}

\* the characters of each tenant id used in the model
IdChars(t) ==
    CASE t = "default" -> {"d", "e", "f", "a", "u", "l", "t"}
      [] t = "test-tenant" -> {"t", "e", "s", "-", "n", "a"}
      [] t = "acme" -> {"a", "c", "m", "e"}
      [] t = "bad id" -> {"b", "a", "d", " ", "i"}
      [] t = "a\tb" -> {"a", "\t", "b"}
      [] t = "a\nb" -> {"a", "\n", "b"}
      [] t = "a\rb" -> {"a", "\r", "b"}
      [] t = "a/b" -> {"a", "/", "b"}
      [] t = "a\\b" -> {"a", "\\", "b"}
      [] t = "a?b" -> {"a", "?", "b"}
      [] t = "a#b" -> {"a", "#", "b"}
      [] OTHER -> {}

\* tenant ids with one character each that validate_tenant_id rejects
InvalidIds == {"bad id", "a\tb", "a\nb", "a\rb", "a/b", "a\\b", "a?b", "a#b"}
\* a tenant_id argument that is no str (and not falsy)
NotAString == "<int>"

NodeIds == 1..MaxNode
EdgeIds == 1..(MaxNode - 1)

RECURSIVE SortedSeq(_)
SortedSeq(S) ==
    IF S = {} THEN <<>>
    ELSE LET m == CHOOSE x \in S : \A y \in S : x <= y
         IN <<m>> \o SortedSeq(S \ {m})

Range(s) == {s[k] : k \in DOMAIN s}

----------------------------------------------------------------------------
(* APIClient (src/tools/lib/api_client.py) *)

\* A backend answer as APIClient.request sees it:
\*   net     "ok" | "timeout" | "conn"
\*   status  the HTTP status code
\*   shape   "dict" | "list" (JSON) | "text" (not JSON)
\*   errors  "absent" | "empty" | "some" (an array of objects) | "strings" (an
\*           array of strings) | "null"     (the body's "errors" key)
\*   success "absent" | "true" | "false"   (the body's "success" key)
Resp(net, status, shape, errors, success) ==
    [net |-> net, status |-> status, shape |-> shape, errors |-> errors, success |-> success]

RespOk == Resp("ok", 200, "dict", "absent", "absent")
FailureResponses ==
    { Resp("timeout", 0, "text", "absent", "absent"),
      Resp("conn", 0, "text", "absent", "absent"),
      Resp("ok", 401, "dict", "absent", "absent"),
      Resp("ok", 404, "text", "absent", "absent"),
      Resp("ok", 500, "list", "absent", "absent"),
      Resp("ok", 200, "dict", "some", "absent"),
      Resp("ok", 200, "dict", "absent", "false") }

\* json.JSONDecodeError -> response_data = {"text": response.text}
IsDict(r) == r.shape \in {"dict", "text"}
HasKey(r, k) ==
    /\ r.shape = "dict"
    /\ \/ k = "errors" /\ r.errors # "absent"
       \/ k = "success" /\ r.success # "absent"

\* _build_headers: the X-Tenant-Id header of a request (Null: no such header);
\* extra is the X-Tenant-Id entry of extra_headers (Null: none)
BuildHeaders(extra, tenant_id, default_tenant) ==
    LET effective_tenant_id == Or(tenant_id, default_tenant)
        own == IF Truthy(effective_tenant_id) THEN effective_tenant_id ELSE Null
    IN IF extra # Null THEN extra ELSE own

\* lines 141-145: what building the GraphQLError from response_data['errors']
\* ends in (err.get on each element of the value)
GraphQLOutcome(r) ==
    CASE r.errors = "null" -> "TypeError"
      [] r.errors = "strings" -> "AttributeError"
      [] OTHER -> "GraphQLError"

\* variant: the success flag of the body is not looked at
SuccessFlagFails_Ignored(r) == FALSE

\* line 148: isinstance(response_data, dict) and response_data.get("success") is False
SuccessFlagFails(r) == IsDict(r) /\ HasKey(r, "success") /\ r.success = "false"

\* request: the kind of outcome for an answer r on endpoint
RequestOutcome(endpoint, r) ==
    IF r.net # "ok" THEN "APIError"
    ELSE IF r.status = 401 THEN "AuthenticationError"
    ELSE IF r.status >= 400
         THEN IF IsDict(r) THEN "APIError" ELSE "AttributeError"
    ELSE IF endpoint \in {"/query", "/mutate"} /\ IsDict(r) /\ HasKey(r, "errors")
         THEN GraphQLOutcome(r)
    ELSE IF SuccessFlagFails(r) THEN "APIError"
    ELSE "ok"

\* one entry of the request log
Req(endpoint, method, xtenant, op, uids, payload) ==
    [endpoint |-> endpoint, method |-> method, xtenant |-> xtenant,
     op |-> op, uids |-> uids, payload |-> payload]

NoPayload == [target |-> Null, confirmNamespace |-> Null]

\* the identifiers sent in the delete requests of one kind, in the order sent
RECURSIVE SentUids(_, _)
SentUids(op, k) ==
    IF k = 0 THEN <<>>
    ELSE SentUids(op, k - 1) \o (IF log[k].op = op THEN log[k].uids ELSE <<>>)
AllSent(op) == SentUids(op, Len(log))

----------------------------------------------------------------------------
(* TenantUtils (src/tools/lib/tenant_utils.py) *)

STANDARD_TENANTS == [t \in {"default", "test-tenant"} |->
                        IF t = "default" THEN "0x0" ELSE "0x1"]

\* variant: the URL query and fragment characters are not rejected
invalid_chars_NoQuery == {" ", "\t", "\n", "\r", "/", "\\"}

invalid_chars == {" ", "\t", "\n", "\r", "/", "\\", "?", "#"}

\* validate_tenant_id: returns True, or raises ValidationError
ValidateTenantId(tenant_id) ==
    IF ~Truthy(tenant_id) THEN Raise("ValidationError", <<"Tenant ID cannot be empty">>)
    ELSE IF tenant_id = NotAString
         THEN Raise("ValidationError", <<"Tenant ID must be a string">>)
    ELSE IF IdChars(tenant_id) \cap invalid_chars # {}
         THEN Raise("ValidationError", <<"Tenant ID cannot contain ", tenant_id>>)
    ELSE Return(PyTrue)

\* answers of GET /tenants/{id}: an answer plus the body's "namespace"
RegistryResponses ==
    { [resp |-> RespOk, namespace |-> "0x2"],
      [resp |-> RespOk, namespace |-> Null],
      [resp |-> RespOk, namespace |-> ""],
      [resp |-> Resp("ok", 200, "list", "absent", "absent"), namespace |-> Null] }
    \cup { [resp |-> f, namespace |-> Null] : f \in FailureResponses }

\* variant: the cache is never consulted
CacheHit_Never(cache, tenant_id, use_cache) == FALSE

\* line 75: if use_cache and tenant_id in self._namespace_cache
CacheHit(cache, tenant_id, use_cache) == use_cache /\ cache[tenant_id] # Null

\* get_tenant_namespace: the result, the cache afterwards and whether the
\* registry was asked (g is then the registry's answer)
GetTenantNamespace(cache, tenant_id, use_cache, g) ==
    LET v == ValidateTenantId(tenant_id)
        o == RequestOutcome("/tenants/{id}", g.resp)
    IN IF ~Returned(v)
       THEN [result |-> v, cache |-> cache, asked |-> FALSE]
       ELSE IF CacheHit(cache, tenant_id, use_cache)
       THEN [result |-> Return(cache[tenant_id]), cache |-> cache, asked |-> FALSE]
       ELSE IF tenant_id \in DOMAIN STANDARD_TENANTS
       THEN [result |-> Return(STANDARD_TENANTS[tenant_id]),
             cache |-> [cache EXCEPT ![tenant_id] = STANDARD_TENANTS[tenant_id]],
             asked |-> FALSE]
       ELSE IF o = "ok" /\ ~IsDict(g.resp)
       THEN [result |-> Raise("AttributeError", <<"get">>), cache |-> cache, asked |-> TRUE]
       ELSE IF o = "ok" /\ Truthy(g.namespace)
       THEN [result |-> Return(g.namespace),
             cache |-> [cache EXCEPT ![tenant_id] = g.namespace], asked |-> TRUE]
       ELSE IF o \in {"ok", "APIError"}
       THEN [result |-> Raise("TenantNotFoundError", <<"Tenant '", tenant_id, "' not found">>),
             cache |-> cache, asked |-> TRUE]
       ELSE [result |-> Raise(o, <<o>>), cache |-> cache, asked |-> TRUE]

\* what the registry's answer g tells get_tenant_namespace: "found" (a body with
\* a namespace), "no namespace", or the error the request or the body's use raises
RegistryInfo(g) ==
    LET o == RequestOutcome("/tenants/{id}", g.resp)
    IN IF o # "ok" THEN o
       ELSE IF ~IsDict(g.resp) THEN "AttributeError"
       ELSE IF Truthy(g.namespace) THEN "found"
       ELSE "no namespace"

\* variant: except Exception: return False
TenantExists_CatchAll(cache, tenant_id, g) ==
    LET n == GetTenantNamespace(cache, tenant_id, TRUE, g)
    IN [result |-> Return(Returned(n.result)), cache |-> n.cache, asked |-> n.asked]

\* tenant_exists: True / False, or the error get_tenant_namespace lets through
TenantExists(cache, tenant_id, g) ==
    LET n == GetTenantNamespace(cache, tenant_id, TRUE, g)
    IN [result |-> IF Returned(n.result) THEN Return(TRUE)
                   ELSE IF Raised(n.result, "TenantNotFoundError") THEN Return(FALSE)
                   ELSE n.result,
        cache |-> n.cache, asked |-> n.asked]

\* whether get_tenant_namespace gets as far as asking the registry
AsksRegistry(cache, tenant_id, use_cache) ==
    /\ Returned(ValidateTenantId(tenant_id))
    /\ ~CacheHit(cache, tenant_id, use_cache)
    /\ tenant_id \notin DOMAIN STANDARD_TENANTS

\* the request get_tenant_namespace sends when it asks the registry
LookupRequest(tenant_id, default_tenant) ==
    Req("/tenants/{id}", "GET", BuildHeaders(Null, Null, default_tenant),
        tenant_id, <<>>, NoPayload)

\* answers of GET /system/status as check_system_status sees them
StatusResponses ==
    { [net |-> "conn", shape |-> "text", enterprise |-> "absent", mode |-> "absent"],
      [net |-> "ok", shape |-> "text", enterprise |-> "absent", mode |-> "absent"],
      [net |-> "ok", shape |-> "list", enterprise |-> "absent", mode |-> "absent"] }
    \cup { [net |-> "ok", shape |-> "dict", enterprise |-> e, mode |-> m] :
             e \in {"absent", "true", "false"}, m \in {"absent", "multi-tenant", "oss"} }

\* check_system_status: the parsed body, or APIError on any failure
CheckSystemStatus(s) ==
    IF s.net # "ok" \/ s.shape = "text"
    THEN Raise("APIError", <<"Failed to get system status">>)
    ELSE Return(s)

\* get_system_capabilities
GetSystemCapabilities(s) ==
    LET status == CheckSystemStatus(s)
    IN IF ~Returned(status)
       THEN Return([enterprise |-> FALSE, multi_tenant |-> FALSE,
                    namespaces_supported |-> FALSE, mode |-> "oss"])
       ELSE IF status.value.shape # "dict"
       THEN Raise("AttributeError", <<"get">>)
       ELSE LET is_enterprise == status.value.enterprise = "true"
                is_multi_tenant == status.value.mode = "multi-tenant"
            IN Return([enterprise |-> is_enterprise, multi_tenant |-> is_multi_tenant,
                       namespaces_supported |-> is_enterprise /\ is_multi_tenant,
                       mode |-> IF status.value.mode = "absent" THEN "unknown"
                                ELSE status.value.mode])

\* what a status answer tells about the cluster's capabilities
StatusInfo(s) ==
    IF ~Returned(CheckSystemStatus(s)) THEN "failed"
    ELSE IF s.shape # "dict" THEN "malformed"
    ELSE IF s.enterprise = "absent" /\ s.mode = "absent" THEN "absent"
    ELSE "reported"

StatusRequest == Req("/system/status", "GET", Null, "status", <<>>, NoPayload)

----------------------------------------------------------------------------
(* State after construction: APIClient(tenant_id=...) wrapped by           *)
(* DgraphOperations(api_client, tenant_id=...)                             *)

NoCall == [op |-> "none", target |-> Null, tenant_id |-> Null, confirm_namespace |-> Null,
           force |-> FALSE, batch_size |-> 0, effective_tenant_id |-> Null]
NoAnswer == [outcome |-> "none", results |-> <<>>]
NoResponse == [net |-> "none", status |-> 0, shape |-> "text", errors |-> "absent",
               success |-> "absent"]
\* the locals of the running operation, and what the backend answered to it:
\* the last identifier query answered (queried), status_info, drop_answer, what
\* the registry told (lookup), what get_tenant_namespace did inside tenant_exists
\* (resolved), the answer to a request (response)
NoLocals == [namespaces_supported |-> FALSE, node_uids |-> <<>>, edge_uids |-> <<>>, i |-> 0,
             queried |-> "none", status_info |-> "none", drop_answer |-> NoAnswer,
             lookup |-> "none", resolved |-> NoResult, response |-> NoResponse]
\* the call before the running one: whether it returned, whether it had then sent
\* every identifier it queried in a delete request, and the namespace it returned
NoPrev == [op |-> "none", tenant |-> Null, ok |-> FALSE, all_sent |-> FALSE, value |-> Null]

\* DgraphOperations.__init__: a tenant_id given to it is pushed into the client
Constructed(client_arg, ops_arg) ==
    /\ ops_tenant_id = ops_arg
    /\ client_tenant_id = IF Truthy(ops_arg) THEN ops_arg ELSE client_arg

InitClient ==
    /\ \E client_arg \in {Null, "default"}, ops_arg \in {Null, "test-tenant"} :
          Constructed(client_arg, ops_arg)
    /\ namespace_cache = [t \in TenantIds |-> Null]
    /\ pc = "idle"
    /\ call = NoCall
    /\ loc = NoLocals
    /\ log = <<>>
    /\ result = NoResult
    /\ prev = NoPrev
    /\ calls = 0

\* what every call does on entry
Enter(c) ==
    /\ pc = "idle"
    /\ calls' = calls + 1
    /\ prev' = [op |-> call.op, tenant |-> call.effective_tenant_id, ok |-> Returned(result),
                all_sent |-> /\ AllSent("deleteEdge") = loc.edge_uids
                             /\ AllSent("deleteNode") = loc.node_uids,
                value |-> IF call.op = "get_tenant_namespace" /\ Returned(result)
                          THEN result.value ELSE Null]
    /\ call' = c
    /\ loc' = NoLocals
    /\ log' = <<>>
    /\ result' = NoResult

\* the call ends with result r
Finish(r) ==
    /\ pc' = "idle"
    /\ result' = r

----------------------------------------------------------------------------
(* DgraphOperations.drop_all_data (src/tools/lib/dgraph_ops.py) *)

Targets == {"remote", "local"}

\* the "results" a dropAll answer may carry (<<>>: none): per instance a result
\* object that reports success or failure, or a value that is no JSON object
ResultMaps ==
    {<<>>} \cup { <<[instance |-> "remote", result |-> r]>> :
                    r \in {"success", "failed", "not a dict"} }

\* lines 221-226: result.get("success") needs every result to be a JSON object
ResultsPrintable(m) == \A k \in DOMAIN m : m[k].result # "not a dict"

\* answers of POST /admin/dropAll, and whether the backend did drop
DropResponses ==
    { [resp |-> RespOk, results |-> m, applied |-> TRUE] : m \in ResultMaps }
    \cup { [resp |-> Resp("ok", 200, "list", "absent", "absent"), results |-> <<>>, applied |-> TRUE] }
    \cup { [resp |-> f, results |-> <<>>, applied |-> a] :
             f \in FailureResponses, a \in BOOLEAN }

\* variant: the message names no namespace token
ConfirmationRequiredMsg_NoToken(expected_namespace) ==
    <<"Namespace confirmation required for safety. Add --confirm-namespace ",
      "<namespace>", " to proceed.">>

ConfirmationRequiredMsg(expected_namespace) ==
    <<"Namespace confirmation required for safety. Add --confirm-namespace ",
      expected_namespace, " to proceed.">>

ConfirmationMismatchMsg(expected_namespace, effective_tenant_id, confirm_namespace) ==
    <<"Namespace confirmation mismatch. Expected '", expected_namespace,
      "' for tenant '", effective_tenant_id, "', got '", confirm_namespace, "'">>

\* variant: any confirmation that was given is accepted
ConfirmationMatches_Given(confirm_namespace, expected_namespace) ==
    Truthy(confirm_namespace)

ConfirmationMatches(confirm_namespace, expected_namespace) ==
    confirm_namespace = expected_namespace

\* variant: the payload carries the target only
DropPayload_TargetOnly(target, confirm_namespace) ==
    [target |-> target, confirmNamespace |-> Null]

DropPayload(target, confirm_namespace) ==
    [target |-> target,
     confirmNamespace |-> IF Truthy(confirm_namespace) THEN confirm_namespace ELSE Null]

EffectiveTenant(tenant_id) == Or(tenant_id, Or(ops_tenant_id, "default"))

DropAllData_Call(target, tenant_id, confirm_namespace, force) ==
    /\ calls < MaxDropCalls
    /\ Enter([op |-> "drop_all_data", target |-> target, tenant_id |-> tenant_id,
              confirm_namespace |-> confirm_namespace, force |-> force, batch_size |-> 0,
              effective_tenant_id |-> EffectiveTenant(tenant_id)])
    /\ pc' = "capabilities"
    /\ UNCHANGED <<backend, context, namespace_cache>>

\* variant: the confirmation is required whatever the capabilities say
\* variant: force skips the confirmation
ConfirmationPasses_Forced(confirm_namespace, expected_namespace, force) ==
    force \/ (/\ Truthy(confirm_namespace)
              /\ ConfirmationMatches(confirm_namespace, expected_namespace))

\* lines 190-204: line 218 is reached when a confirmation was given and equals the
\* expected namespace; force is not read
ConfirmationPasses(confirm_namespace, expected_namespace, force) ==
    /\ Truthy(confirm_namespace)
    /\ ConfirmationMatches(confirm_namespace, expected_namespace)

DropNextPc_AlwaysConfirm(namespaces_supported) == "confirm"

\* line 181: if capabilities["namespaces_supported"]
DropNextPc(namespaces_supported) == IF namespaces_supported THEN "confirm" ELSE "send"

\* line 179: capabilities = self.tenant_utils.get_system_capabilities()
DropAllData_Capabilities(s) ==
    /\ pc = "capabilities"
    /\ log' = Append(log, StatusRequest)
    /\ LET capabilities == GetSystemCapabilities(s)
       IN IF ~Returned(capabilities)
          THEN Finish(capabilities) /\ loc' = [loc EXCEPT !.status_info = StatusInfo(s)]
          ELSE /\ loc' = [loc EXCEPT !.namespaces_supported =
                                        capabilities.value.namespaces_supported,
                                    !.status_info = StatusInfo(s)]
               /\ pc' = DropNextPc(capabilities.value.namespaces_supported)
               /\ UNCHANGED result
    /\ UNCHANGED <<backend, context, namespace_cache, call, prev, calls>>

\* the registry's answers to a second get_tenant_namespace of the same call: they
\* matter only if that call asks the registry again
SecondAnswers(cache, tenant_id, g1) ==
    IF AsksRegistry(TenantExists(cache, tenant_id, g1).cache, tenant_id, TRUE)
    THEN RegistryResponses ELSE {g1}

\* lines 181-204: tenant validation and namespace confirmation
DropAllData_Confirm(g1, g2) ==
    /\ pc = "confirm"
    /\ LET tenant == call.effective_tenant_id
           e == TenantExists(namespace_cache, tenant, g1)
           n == GetTenantNamespace(e.cache, tenant, TRUE, g2)
           lookup == LookupRequest(tenant, client_tenant_id)
           log1 == IF e.asked THEN Append(log, lookup) ELSE log
           log2 == IF n.asked THEN Append(log1, lookup) ELSE log1
       IN IF ~Returned(e.result)
          THEN Finish(e.result) /\ namespace_cache' = e.cache /\ log' = log1
          ELSE IF ~e.result.value
          THEN /\ Finish(Raise("TenantNotFoundError", <<"Tenant '", tenant, "' not found">>))
               /\ namespace_cache' = e.cache /\ log' = log1
          ELSE IF ~Returned(n.result)
          THEN Finish(n.result) /\ namespace_cache' = n.cache /\ log' = log2
          ELSE IF ConfirmationPasses(call.confirm_namespace, n.result.value, call.force)
          THEN /\ pc' = "send" /\ UNCHANGED result
               /\ namespace_cache' = n.cache /\ log' = log2
          ELSE IF ~Truthy(call.confirm_namespace)
          THEN /\ Finish(Raise("NamespaceError", ConfirmationRequiredMsg(n.result.value)))
               /\ namespace_cache' = n.cache /\ log' = log2
          ELSE /\ Finish(Raise("NamespaceError",
                    ConfirmationMismatchMsg(n.result.value, tenant, call.confirm_namespace)))
               /\ namespace_cache' = n.cache /\ log' = log2
    /\ UNCHANGED <<backend, context, call, loc, prev, calls>>

\* lines 206-231: the drop request itself; a drop the backend performs wipes
\* every namespace of the cluster
DropAllData_Send(d) ==
    /\ pc = "send"
    /\ log' = Append(log,
         Req("/admin/dropAll", "POST",
             BuildHeaders(Null, call.effective_tenant_id, client_tenant_id),
             "dropAll", <<>>, DropPayload(call.target, call.confirm_namespace)))
    /\ LET r == RequestOutcome("/admin/dropAll", d.resp)
           \* response.get(...) on a body that is no JSON object
           o == IF r = "ok" /\ ~(IsDict(d.resp) /\ ResultsPrintable(d.results))
                THEN "AttributeError" ELSE r
       IN /\ loc' = [loc EXCEPT !.drop_answer = [outcome |-> o, results |-> d.results]]
          /\ IF o = "ok"
             THEN Finish(Return(PyTrue))
             ELSE Finish(Raise("NamespaceError", <<"DropAll operation failed: ", o>>))
          /\ IF d.applied
             THEN /\ nodes' = [ns \in Namespaces |-> {}]
                  /\ edges' = [ns \in Namespaces |-> {}]
             ELSE UNCHANGED backend
    /\ UNCHANGED <<context, namespace_cache, call, prev, calls>>

InitDrop ==
    /\ InitClient
    /\ nodes = [ns \in Namespaces |-> NodeIds]
    /\ edges = [ns \in Namespaces |-> EdgeIds]

NextDrop ==
    \/ \E target \in Targets, tenant_id \in TenantArgs,
          confirm_namespace \in ConfirmArgs, force \in BOOLEAN :
          DropAllData_Call(target, tenant_id, confirm_namespace, force)
    \/ \E s \in StatusResponses : DropAllData_Capabilities(s)
    \/ \E g1 \in RegistryResponses :
          \E g2 \in SecondAnswers(namespace_cache, call.effective_tenant_id, g1) :
             DropAllData_Confirm(g1, g2)
    \/ \E d \in DropResponses : DropAllData_Send(d)

SpecDrop == InitDrop /\ [][NextDrop]_vars

----------------------------------------------------------------------------
(* The backend's graph store, as the library relies on it: the X-Tenant-Id  *)
(* header of a request selects the namespace it reads or deletes from.     *)

\* the namespace a request with this X-Tenant-Id header works on
BackendNamespace(xtenant) ==
    CASE xtenant = "test-tenant" -> "0x1"
      [] xtenant = "acme" -> "0x2"
      [] OTHER -> "0x0"

\* edge e links nodes e and e+1; an edge lives in a namespace only with both ends
EdgeEnds(e) == {e, e + 1}
\* initial contents of a namespace: k nodes chained by k-1 edges
Contents == { [n |-> 1..k, e |-> 1..(k - 1)] : k \in 0..MaxNode }

\* failed answers to /query and /mutate requests
GraphFailures ==
    { Resp("timeout", 0, "text", "absent", "absent"),
      Resp("ok", 401, "dict", "absent", "absent"),
      Resp("ok", 200, "dict", "some", "absent") }

\* answers to a /query request; the data of a good answer is the namespace's content
QueryResponses ==
    {RespOk, Resp("ok", 200, "list", "absent", "absent")} \cup GraphFailures

\* answers to a delete mutation, and whether the backend performed it
DeleteResponses ==
    { [resp |-> RespOk, applied |-> TRUE],
      [resp |-> Resp("ok", 200, "list", "absent", "absent"), applied |-> TRUE],
      [resp |-> Resp("timeout", 0, "text", "absent", "absent"), applied |-> TRUE] }
    \cup { [resp |-> f, applied |-> FALSE] : f \in GraphFailures }

\* the backend refuses to delete a node that an edge of the namespace still ends at
NodesDeletable(ns, uids) ==
    \A e \in edges[ns] : EdgeEnds(e) \cap Range(uids) = {}

----------------------------------------------------------------------------
(* DgraphOperations.clear_namespace_data (src/tools/lib/dgraph_ops.py) *)

\* batch_size is any int the caller passes; the default is 100
BatchSizes == {-1, 0} \cup 1..MaxBatch

\* variant: the requests fall back to the client's default tenant context
ClearRequestTenant_Default(effective_tenant_id) == Null

\* the tenant_id argument of every /query and /mutate request of the operation
ClearRequestTenant(effective_tenant_id) == effective_tenant_id

\* batch_uids = uids[i:i + batch_size]
BatchUids(uids, i, batch_size) ==
    SubSeq(uids, i + 1, Min(i + batch_size, Len(uids)))

\* for i in range(0, len(uids), batch_size): is there a batch at offset i
\* (a negative step counts down from 0 and yields nothing; step 0 is RangeRaises)
HasBatch(uids, i, batch_size) ==
    IF batch_size > 0 THEN i < Len(uids) ELSE i > Len(uids)

\* range() arg 3 must not be zero
RangeRaises(batch_size) == batch_size = 0

\* variant: the early return on an empty node query is missing
NothingToDelete_Never(node_count) == FALSE

\* line 65: if node_count == 0
NothingToDelete(node_count) == node_count = 0

\* the batch loop over uids as the next step: its first request, the ValueError
\* of range(), or nothing to do
BatchLoop(step, uids, batch_size) ==
    IF uids = <<>> THEN "skip"
    ELSE IF RangeRaises(batch_size) THEN "ValueError"
    ELSE IF HasBatch(uids, 0, batch_size) THEN step
    ELSE "skip"

\* variant: nodes are deleted before edges
ClearNextPc_NodesFirst(from, edge_uids, node_uids, batch_size) ==
    LET n == BatchLoop("delete_nodes", node_uids, batch_size)
        e == BatchLoop("delete_edges", edge_uids, batch_size)
    IN IF from = "query_edges" /\ n # "skip" THEN n
       ELSE IF from \in {"query_edges", "delete_nodes"} /\ e # "skip" THEN e
       ELSE "return"

\* where the operation goes once a step is complete: edges are deleted first
\* (if edges / if edge_uids), then nodes (if nodes / if node_uids), then return
ClearNextPc(from, edge_uids, node_uids, batch_size) ==
    LET e == BatchLoop("delete_edges", edge_uids, batch_size)
        n == BatchLoop("delete_nodes", node_uids, batch_size)
    IN IF from = "query_edges" /\ e # "skip" THEN e
       ELSE IF from \in {"query_edges", "delete_edges"} /\ n # "skip" THEN n
       ELSE "return"

\* variant: the error is raised as it came
ClearFailed_Unwrapped(o) == Raise(o, <<o>>)

\* lines 104-105: except Exception as e: raise NamespaceError(...)
ClearFailed(o) == Raise("NamespaceError", <<"Failed to clear namespace data: ", o>>)

\* the outcome of a request whose body the caller then reads with .get(...)
BodyOutcome(endpoint, r) ==
    LET o == RequestOutcome(endpoint, r)
    IN IF o = "ok" /\ ~IsDict(r) THEN "AttributeError" ELSE o

ClearRequest(endpoint, op, uids) ==
    Req(endpoint, "POST",
        BuildHeaders(Null, ClearRequestTenant(call.effective_tenant_id), client_tenant_id),
        op, uids, NoPayload)

\* continue at the next step, return True when there is none, or fail
ClearGoto(next) ==
    IF next = "return" THEN Finish(Return(PyTrue))
    ELSE IF next = "ValueError" THEN Finish(ClearFailed("ValueError"))
    ELSE pc' = next /\ UNCHANGED result

ClearNamespaceData_Call(tenant_id, batch_size) ==
    /\ calls < MaxClearCalls
    /\ Enter([op |-> "clear_namespace_data", target |-> Null, tenant_id |-> tenant_id,
              confirm_namespace |-> Null, force |-> FALSE, batch_size |-> batch_size,
              effective_tenant_id |-> EffectiveTenant(tenant_id)])
    /\ pc' = "tenant_exists"
    /\ UNCHANGED <<backend, context, namespace_cache>>

\* variant: the tenant is not validated before the queries
ClearTenantStep_Unchecked(exists) == "query_nodes"

\* lines 51-52: if not tenant_exists(...): raise TenantNotFoundError
ClearTenantStep(exists) == IF exists THEN "query_nodes" ELSE "TenantNotFoundError"

\* lines 50-52: validate tenant exists
ClearNamespaceData_TenantExists(g) ==
    /\ pc = "tenant_exists"
    /\ LET tenant == call.effective_tenant_id
           e == TenantExists(namespace_cache, tenant, g)
       IN /\ namespace_cache' = e.cache
          /\ log' = IF e.asked THEN Append(log, LookupRequest(tenant, client_tenant_id))
                    ELSE log
          /\ loc' = [loc EXCEPT !.lookup = IF e.asked THEN RegistryInfo(g) ELSE "not asked"]
          /\ IF ~Returned(e.result) THEN Finish(e.result)
             ELSE IF ClearTenantStep(e.result.value) = "TenantNotFoundError"
             THEN Finish(Raise("TenantNotFoundError", <<"Tenant '", tenant, "' not found">>))
             ELSE pc' = ClearTenantStep(e.result.value) /\ UNCHANGED result
    /\ UNCHANGED <<backend, context, call, prev, calls>>

\* lines 57-69: query all nodes; an empty namespace ends the operation
ClearNamespaceData_QueryNodes(q) ==
    /\ pc = "query_nodes"
    /\ LET request == ClearRequest("/query", "queryNode", <<>>)
           o == BodyOutcome("/query", q)
           found == SortedSeq(nodes[BackendNamespace(request.xtenant)])
       IN /\ log' = Append(log, request)
          /\ IF o # "ok" THEN Finish(ClearFailed(o)) /\ UNCHANGED loc
             ELSE IF NothingToDelete(Len(found))
             THEN Finish(Return(PyTrue)) /\ loc' = [loc EXCEPT !.queried = "nodes"]
             ELSE /\ loc' = [loc EXCEPT !.node_uids = found, !.queried = "nodes"]
                  /\ pc' = "query_edges" /\ UNCHANGED result
    /\ UNCHANGED <<backend, context, namespace_cache, call, prev, calls>>

\* lines 71-79: query all edges
ClearNamespaceData_QueryEdges(q) ==
    /\ pc = "query_edges"
    /\ LET request == ClearRequest("/query", "queryEdge", <<>>)
           o == BodyOutcome("/query", q)
           found == SortedSeq(edges[BackendNamespace(request.xtenant)])
       IN /\ log' = Append(log, request)
          /\ IF o # "ok" THEN Finish(ClearFailed(o)) /\ UNCHANGED loc
             ELSE /\ loc' = [loc EXCEPT !.edge_uids = found, !.i = 0, !.queried = "edges"]
                  /\ ClearGoto(ClearNextPc("query_edges", found, loc.node_uids, call.batch_size))
    /\ UNCHANGED <<backend, context, namespace_cache, call, prev, calls>>

\* lines 81-89 and _delete_edges_in_batches: one edge batch
ClearNamespaceData_DeleteEdges(d) ==
    /\ pc = "delete_edges"
    /\ LET batch_uids == BatchUids(loc.edge_uids, loc.i, call.batch_size)
           request == ClearRequest("/mutate", "deleteEdge", batch_uids)
           ns == BackendNamespace(request.xtenant)
           o == BodyOutcome("/mutate", d.resp)
           i == loc.i + call.batch_size
       IN /\ log' = Append(log, request)
          /\ edges' = IF d.applied THEN [edges EXCEPT ![ns] = @ \ Range(batch_uids)]
                      ELSE edges
          /\ IF o # "ok" THEN Finish(ClearFailed(o)) /\ UNCHANGED loc
             ELSE IF HasBatch(loc.edge_uids, i, call.batch_size)
             THEN loc' = [loc EXCEPT !.i = i] /\ UNCHANGED <<pc, result>>
             ELSE /\ loc' = [loc EXCEPT !.i = 0]
                  /\ ClearGoto(ClearNextPc("delete_edges", loc.edge_uids, loc.node_uids,
                                           call.batch_size))
    /\ UNCHANGED <<nodes, context, namespace_cache, call, prev, calls>>

\* lines 91-102 and _delete_nodes_in_batches: one node batch
ClearNamespaceData_DeleteNodes(d) ==
    /\ pc = "delete_nodes"
    /\ LET batch_uids == BatchUids(loc.node_uids, loc.i, call.batch_size)
           request == ClearRequest("/mutate", "deleteNode", batch_uids)
           ns == BackendNamespace(request.xtenant)
           o == BodyOutcome("/mutate", d.resp)
           i == loc.i + call.batch_size
       IN /\ d.applied => NodesDeletable(ns, batch_uids)
          /\ log' = Append(log, request)
          /\ nodes' = IF d.applied THEN [nodes EXCEPT ![ns] = @ \ Range(batch_uids)]
                      ELSE nodes
          /\ IF o # "ok" THEN Finish(ClearFailed(o)) /\ UNCHANGED loc
             ELSE IF HasBatch(loc.node_uids, i, call.batch_size)
             THEN loc' = [loc EXCEPT !.i = i] /\ UNCHANGED <<pc, result>>
             ELSE /\ loc' = [loc EXCEPT !.i = 0]
                  /\ ClearGoto(ClearNextPc("delete_nodes", loc.edge_uids, loc.node_uids,
                                           call.batch_size))
    /\ UNCHANGED <<edges, context, namespace_cache, call, prev, calls>>

InitClear ==
    /\ InitClient
    /\ \E content \in {c \in [Namespaces -> Contents] :
                          c["0x1"].n = NodeIds /\ c["0x2"].n = 1..2} :
          /\ nodes = [ns \in Namespaces |-> content[ns].n]
          /\ edges = [ns \in Namespaces |-> content[ns].e]

NextClear ==
    \/ \E tenant_id \in TenantArgs, batch_size \in BatchSizes :
          ClearNamespaceData_Call(tenant_id, batch_size)
    \/ \E g \in RegistryResponses : ClearNamespaceData_TenantExists(g)
    \/ \E q \in QueryResponses : ClearNamespaceData_QueryNodes(q)
    \/ \E q \in QueryResponses : ClearNamespaceData_QueryEdges(q)
    \/ \E d \in DeleteResponses : ClearNamespaceData_DeleteEdges(d)
    \/ \E d \in DeleteResponses : ClearNamespaceData_DeleteNodes(d)

SpecClear == InitClear /\ [][NextClear]_vars

----------------------------------------------------------------------------
(* TenantUtils used on its own: get_tenant_namespace, tenant_exists and     *)
(* clear_namespace_cache on one TenantUtils instance                        *)

AllTenantIds == TenantIds \cup InvalidIds
TenantInputs == AllTenantIds \cup {Null, "", NotAString}

\* the registry may name another namespace the next time it is asked
TenantRegistryResponses ==
    RegistryResponses \cup {[resp |-> RespOk, namespace |-> "0x3"]}

TenantCall(op, tenant_id, use_cache) ==
    [op |-> op, tenant_id |-> tenant_id, use_cache |-> use_cache,
     effective_tenant_id |-> tenant_id]

GetTenantNamespace_Call(tenant_id, use_cache) ==
    /\ calls < MaxTenantCalls
    /\ Enter(TenantCall("get_tenant_namespace", tenant_id, use_cache))
    /\ pc' = "resolve"
    /\ UNCHANGED <<backend, context, namespace_cache>>

\* get_tenant_namespace, lines 72-97; g is the registry's answer if it is asked
GetTenantNamespace_Resolve(g) ==
    /\ pc = "resolve"
    /\ LET n == GetTenantNamespace(namespace_cache, call.tenant_id, call.use_cache, g)
       IN /\ namespace_cache' = n.cache
          /\ log' = IF n.asked
                    THEN Append(log, LookupRequest(call.tenant_id, client_tenant_id))
                    ELSE log
          /\ loc' = [loc EXCEPT !.lookup = IF n.asked THEN RegistryInfo(g) ELSE "not asked",
                                !.resolved = n.result]
          /\ Finish(n.result)
    /\ UNCHANGED <<backend, context, call, prev, calls>>

TenantExists_Call(tenant_id) ==
    /\ calls < MaxTenantCalls
    /\ Enter(TenantCall("tenant_exists", tenant_id, TRUE))
    /\ pc' = "exists"
    /\ UNCHANGED <<backend, context, namespace_cache>>

\* tenant_exists, lines 109-113; loc.resolved is what its get_tenant_namespace did
TenantExists_Resolve(g) ==
    /\ pc = "exists"
    /\ LET n == GetTenantNamespace(namespace_cache, call.tenant_id, TRUE, g)
           e == TenantExists(namespace_cache, call.tenant_id, g)
       IN /\ namespace_cache' = e.cache
          /\ log' = IF e.asked
                    THEN Append(log, LookupRequest(call.tenant_id, client_tenant_id))
                    ELSE log
          /\ loc' = [loc EXCEPT !.lookup = IF e.asked THEN RegistryInfo(g) ELSE "not asked",
                                !.resolved = n.result]
          /\ Finish(e.result)
    /\ UNCHANGED <<backend, context, call, prev, calls>>

\* clear_namespace_cache, lines 189-191
ClearNamespaceCache ==
    /\ calls < MaxTenantCalls
    /\ Enter(TenantCall("clear_namespace_cache", Null, TRUE))
    /\ pc' = "clear_cache"
    /\ UNCHANGED <<backend, context, namespace_cache>>

ClearNamespaceCache_Clear ==
    /\ pc = "clear_cache"
    /\ namespace_cache' = [t \in DOMAIN namespace_cache |-> Null]
    /\ Finish(Return(Null))
    /\ UNCHANGED <<backend, context, call, loc, log, prev, calls>>

GetSystemCapabilities_Call ==
    /\ calls < MaxTenantCalls
    /\ Enter(TenantCall("get_system_capabilities", Null, TRUE))
    /\ pc' = "status"
    /\ UNCHANGED <<backend, context, namespace_cache>>

\* get_system_capabilities, lines 156-174; s is the answer of GET /system/status
GetSystemCapabilities_Answer(s) ==
    /\ pc = "status"
    /\ log' = Append(log, StatusRequest)
    /\ loc' = [loc EXCEPT !.status_info = StatusInfo(s)]
    /\ Finish(GetSystemCapabilities(s))
    /\ UNCHANGED <<backend, context, namespace_cache, call, prev, calls>>

InitTenant ==
    /\ \E client_arg \in {Null, "default"} : Constructed(client_arg, Null)
    /\ namespace_cache = [t \in AllTenantIds |-> Null]
    /\ pc = "idle" /\ call = NoCall /\ loc = NoLocals /\ log = <<>>
    /\ result = NoResult /\ prev = NoPrev /\ calls = 0
    /\ nodes = [ns \in Namespaces |-> {}]
    /\ edges = [ns \in Namespaces |-> {}]

NextTenant ==
    \/ \E tenant_id \in TenantInputs, use_cache \in BOOLEAN :
          GetTenantNamespace_Call(tenant_id, use_cache)
    \/ \E g \in TenantRegistryResponses : GetTenantNamespace_Resolve(g)
    \/ \E tenant_id \in TenantInputs : TenantExists_Call(tenant_id)
    \/ \E g \in TenantRegistryResponses : TenantExists_Resolve(g)
    \/ ClearNamespaceCache
    \/ ClearNamespaceCache_Clear
    \/ GetSystemCapabilities_Call
    \/ \E s \in StatusResponses : GetSystemCapabilities_Answer(s)

SpecTenant == InitTenant /\ [][NextTenant]_vars

----------------------------------------------------------------------------
(* APIClient.request used on its own *)

Endpoints == {"/query", "/mutate", "/admin/dropAll", "/tenants/{id}"}
Methods == {"GET", "POST"}
StatusCodes == {200, 201, 304, 400, 401, 404, 500}

\* every answer request() tells apart: transport failures, and responses of each
\* status with a JSON object (with or without "errors" and "success"), another
\* JSON value, or a body that is no JSON
RequestResponses ==
    { Resp(net, 0, "text", "absent", "absent") : net \in {"timeout", "conn", "other"} }
    \cup { Resp("ok", status, "dict", errors, success) :
              status \in StatusCodes,
              errors \in {"absent", "empty", "some", "strings", "null"},
              success \in {"absent", "true", "false"} }
    \cup { Resp("ok", status, shape, "absent", "absent") :
              status \in StatusCodes, shape \in {"list", "text"} }

\* request: the parsed body, or the error raised
RequestResult(endpoint, r) ==
    LET o == RequestOutcome(endpoint, r)
    IN IF o = "ok" THEN Return(r) ELSE Raise(o, <<o>>)

\* the X-Tenant-Id entry of the extra_headers argument: None when the argument is
\* absent or has no such entry
ExtraHeaders == {Null, "acme", "other"}

Request_Call(endpoint, method, tenant_id, extra_headers) ==
    /\ calls < MaxRequestCalls
    /\ Enter([op |-> "request", endpoint |-> endpoint, method |-> method,
              tenant_id |-> tenant_id, effective_tenant_id |-> tenant_id,
              extra_headers |-> extra_headers])
    /\ pc' = "request"
    /\ UNCHANGED <<backend, context, namespace_cache>>

\* lines 114-159: the request is sent and its answer r classified
Request_Answer(r) ==
    /\ pc = "request"
    /\ log' = Append(log, Req(call.endpoint, call.method,
                              BuildHeaders(call.extra_headers, call.tenant_id,
                                           client_tenant_id),
                              "request", <<>>, NoPayload))
    /\ loc' = [loc EXCEPT !.response = r]
    /\ Finish(RequestResult(call.endpoint, r))
    /\ UNCHANGED <<backend, context, namespace_cache, call, prev, calls>>

InitRequest ==
    /\ \E client_arg \in {Null, "default"} : Constructed(client_arg, Null)
    /\ namespace_cache = [t \in TenantIds |-> Null]
    /\ pc = "idle" /\ call = NoCall /\ loc = NoLocals /\ log = <<>>
    /\ result = NoResult /\ prev = NoPrev /\ calls = 0
    /\ nodes = [ns \in Namespaces |-> {}]
    /\ edges = [ns \in Namespaces |-> {}]

NextRequest ==
    \/ \E endpoint \in Endpoints, method \in Methods, tenant_id \in {Null, "acme"},
          extra_headers \in ExtraHeaders :
          Request_Call(endpoint, method, tenant_id, extra_headers)
    \/ \E r \in RequestResponses : Request_Answer(r)

SpecRequest == InitRequest /\ [][NextRequest]_vars

----------------------------------------------------------------------------
(* The drop_data.py command: main, detect_dgraph_capabilities,
   clear_namespace_data_via_api, drop_all_data_via_api, over call_api *)

\* call_api (tools/api_client.py): the "success" entry of the dictionary returned
\* for an answer r on endpoint; an exception of any kind gives success False
CallApiSuccess(endpoint, r) ==
    /\ r.net = "ok"
    /\ r.status >= 200 /\ r.status < 300
    /\ ~(endpoint \in {"/query", "/mutate"} /\ r.shape = "dict" /\ r.errors # "absent")
    /\ ~(r.shape = "dict" /\ r.success = "false")

\* call_api: the "data" entry is the parsed body, a dict only for a JSON object
\* (a body that is no JSON is kept as a string)
CallApiDataIsDict(r) == r.net = "ok" /\ r.shape = "dict"

\* the answers the command tells apart
ToolResponses ==
    { Resp("timeout", 0, "text", "absent", "absent"),
      Resp("ok", 200, "dict", "absent", "absent"),
      Resp("ok", 200, "dict", "absent", "true"),
      Resp("ok", 200, "dict", "some", "absent"),
      Resp("ok", 200, "dict", "empty", "absent"),
      Resp("ok", 200, "dict", "absent", "false"),
      Resp("ok", 200, "list", "absent", "absent"),
      Resp("ok", 200, "text", "absent", "absent"),
      Resp("ok", 304, "dict", "absent", "absent"),
      Resp("ok", 401, "dict", "absent", "absent"),
      Resp("ok", 500, "dict", "absent", "absent") }

\* what the body of /system/status says
ToolStatusBodies ==
    { [enterprise |-> e, mode |-> m] : e \in BOOLEAN, m \in {"multi-tenant", "oss"} }

\* detect_dgraph_capabilities: namespacesSupported
DetectDgraphCapabilities(r, body) ==
    IF CallApiSuccess("/system/status", r)
    THEN IF CallApiDataIsDict(r)
         THEN body.enterprise /\ body.mode = "multi-tenant"
         ELSE FALSE
    ELSE FALSE

\* the queryNode / queryEdge lists of a body: entries with their uid, 0 for an
\* entry without "uid"
ToolLists ==
    { [k \in 1..n |-> k] : n \in 0..MaxToolItems } \cup { <<0>>, <<1, 0>> }

\* lines 93 and 125: [x["uid"] for x in items if "uid" in x]
Uids(items) == SelectSeq(items, LAMBDA x : x # 0)

\* a local that has not been assigned
Unbound == -1

ToolArgs(tenant_id, enable_drop_all, confirm_namespace, admin_api_key) ==
    [op |-> "drop_data.py", tenant_id |-> tenant_id, enable_drop_all |-> enable_drop_all,
     confirm_namespace |-> confirm_namespace, admin_api_key |-> admin_api_key,
     target |-> "both"]

\* nodes and edges are the lists queried; edges_queried tells that the edge query
\* was answered with success; answers records, for each delete request answered,
\* whether call_api reported success, whether the body was an object, and its
\* numUids
NoToolLocals ==
    [namespacesSupported |-> FALSE, nodes |-> <<>>, edges |-> <<>>,
     edges_queried |-> FALSE,
     node_uids |-> <<>>, edge_uids |-> <<>>, i |-> 0,
     total_edges_deleted |-> Unbound, total_nodes_deleted |-> Unbound,
     answers |-> <<>>]

ToolRequest(endpoint, method, xtenant, op, uids, payload) ==
    Req(endpoint, method, xtenant, op, uids, payload)

\* sys.exit(code)
Exit(code) == Return(code)

\* lines 237-241: without an admin API key the command exits 1 at once
Main_Call(tenant_id, enable_drop_all, confirm_namespace, admin_api_key) ==
    /\ pc = "idle"
    /\ calls < MaxToolCalls
    /\ calls' = calls + 1
    /\ call' = ToolArgs(tenant_id, enable_drop_all, confirm_namespace, admin_api_key)
    /\ loc' = NoToolLocals
    /\ log' = <<>>
    /\ IF admin_api_key = Null
       THEN pc' = "exited" /\ result' = Exit(1)
       ELSE pc' = "detect" /\ result' = NoResult
    /\ UNCHANGED <<backend, context, namespace_cache, prev>>

\* lines 244-276: the mode chosen after capability detection
MainNextPc(namespacesSupported, enable_drop_all, confirm_namespace) ==
    IF namespacesSupported
    THEN IF enable_drop_all
         THEN IF ~Truthy(confirm_namespace) THEN "exited" ELSE "dropAll"
         ELSE "query_nodes"
    ELSE "dropAll"

Main_Detect(r, body) ==
    /\ pc = "detect"
    /\ LET supported == DetectDgraphCapabilities(r, body)
           next == MainNextPc(supported, call.enable_drop_all, call.confirm_namespace)
       IN /\ loc' = [loc EXCEPT !.namespacesSupported = supported]
          /\ pc' = next
          /\ result' = IF next = "exited" THEN Exit(1) ELSE NoResult
    /\ log' = Append(log, ToolRequest("/system/status", "GET", Null, "status", <<>>,
                                      NoPayload))
    /\ UNCHANGED <<backend, context, namespace_cache, call, prev, calls>>

\* drop_all_data_via_api (162-200) as main calls it: with the tenant and the
\* confirmation in Enterprise mode (263-264), with neither in OSS mode (275).
\* results_ok tells whether lines 188-194 can read the body: an empty body or an
\* object whose results, if any, are objects
DropAllDataViaApi(r, results_ok) ==
    /\ pc = "dropAll"
    /\ LET tenant_id == IF loc.namespacesSupported THEN call.tenant_id ELSE Null
           confirm_namespace == IF loc.namespacesSupported THEN call.confirm_namespace
                                ELSE Null
       IN log' = Append(log, ToolRequest("/admin/dropAll", "POST",
                                         IF Truthy(tenant_id) THEN tenant_id ELSE Null,
                                         "dropAll", <<>>,
                                         [target |-> call.target,
                                          confirmNamespace |->
                                            IF Truthy(confirm_namespace)
                                            THEN confirm_namespace ELSE Null]))
    /\ pc' = "exited"
    /\ result' = IF ~CallApiSuccess("/admin/dropAll", r) THEN Exit(1)
                 ELSE IF ~results_ok
                 THEN Raise("AttributeError", <<"get">>)
                 ELSE Exit(0)
    /\ UNCHANGED <<backend, context, namespace_cache, call, loc, prev, calls>>

\* True -> main goes on to sys.exit(0); False -> sys.exit(1) (269-270, 278-279)
ClearReturns(ok) == Exit(IF ok THEN 0 ELSE 1)

\* lines 155-156: the report names both totals
ReportOutcome(l) ==
    l.total_nodes_deleted # Unbound /\ l.total_edges_deleted # Unbound

\* lines 123-156, entered with the locals l once the edges are done
NodesPhase(l) ==
    LET node_uids == Uids(l.nodes)
    IN IF node_uids # <<>>
       THEN [pc |-> "delete_nodes",
             loc |-> [l EXCEPT !.node_uids = node_uids, !.i = 0,
                               !.total_nodes_deleted = 0],
             result |-> NoResult]
       ELSE [pc |-> "exited", loc |-> [l EXCEPT !.node_uids = node_uids],
             result |-> ClearReturns(ReportOutcome(l))]

\* lines 90-107, entered with the locals l once the edges are queried
EdgesPhase(l) ==
    LET edge_uids == Uids(l.edges)
    IN IF l.edges # <<>> /\ edge_uids # <<>>
       THEN [pc |-> "delete_edges",
             loc |-> [l EXCEPT !.edge_uids = edge_uids, !.i = 0,
                               !.total_edges_deleted = 0],
             result |-> NoResult]
       ELSE NodesPhase([l EXCEPT !.edge_uids = edge_uids])

ToolGoto(n) == pc' = n.pc /\ loc' = n.loc /\ result' = n.result

\* lines 56-74
ClearViaApi_QueryNodes(r, items) ==
    /\ pc = "query_nodes"
    /\ log' = Append(log, ToolRequest("/query", "POST", call.tenant_id, "queryNode",
                                      <<>>, NoPayload))
    /\ IF ~CallApiSuccess("/query", r) \/ ~CallApiDataIsDict(r)
       THEN ToolGoto([pc |-> "exited", loc |-> loc, result |-> ClearReturns(FALSE)])
       ELSE IF Len(items) = 0
       THEN ToolGoto([pc |-> "exited", loc |-> loc, result |-> ClearReturns(TRUE)])
       ELSE ToolGoto([pc |-> "query_edges", loc |-> [loc EXCEPT !.nodes = items],
                      result |-> NoResult])
    /\ UNCHANGED <<backend, context, namespace_cache, call, prev, calls>>

\* lines 76-107 (and 123-156 when there is no edge to delete)
ClearViaApi_QueryEdges(r, items) ==
    /\ pc = "query_edges"
    /\ log' = Append(log, ToolRequest("/query", "POST", call.tenant_id, "queryEdge",
                                      <<>>, NoPayload))
    /\ IF ~CallApiSuccess("/query", r)
       THEN ToolGoto(EdgesPhase([loc EXCEPT !.edges = <<>>]))
       ELSE IF ~CallApiDataIsDict(r)
       THEN ToolGoto([pc |-> "exited", loc |-> loc, result |-> ClearReturns(FALSE)])
       ELSE ToolGoto(EdgesPhase([loc EXCEPT !.edges = items, !.edges_queried = TRUE]))
    /\ UNCHANGED <<backend, context, namespace_cache, call, prev, calls>>

\* lines 116-120 and 148-152: the total after an answer with numUids
Accumulate_Always(total, success, numUids) == total + numUids

Accumulate(total, success, numUids) == IF success THEN total + numUids ELSE total

ToolAnswer(op, r, numUids) ==
    [op |-> op, success |-> CallApiSuccess("/mutate", r),
     is_dict |-> CallApiDataIsDict(r), numUids |-> numUids]

\* lines 108-121: one turn of the edge loop
ClearViaApi_DeleteEdges(r, numUids) ==
    /\ pc = "delete_edges"
    /\ LET batch_uids == BatchUids(loc.edge_uids, loc.i, ToolBatchSize)
           a == ToolAnswer("deleteEdge", r, numUids)
           l == [loc EXCEPT !.i = loc.i + ToolBatchSize,
                            !.answers = Append(loc.answers, a),
                            !.total_edges_deleted =
                                Accumulate(loc.total_edges_deleted, a.success, numUids)]
       IN /\ numUids <= Len(batch_uids)
          /\ log' = Append(log, ToolRequest("/mutate", "POST", call.tenant_id,
                                            "deleteEdge", batch_uids, NoPayload))
          /\ IF a.success /\ ~a.is_dict
             THEN ToolGoto([pc |-> "exited",
                            loc |-> [loc EXCEPT !.answers = Append(loc.answers, a)],
                            result |-> ClearReturns(FALSE)])
             ELSE IF l.i < Len(loc.edge_uids)
             THEN ToolGoto([pc |-> "delete_edges", loc |-> l, result |-> NoResult])
             ELSE ToolGoto(NodesPhase(l))
    /\ UNCHANGED <<backend, context, namespace_cache, call, prev, calls>>

\* lines 140-156: one turn of the node loop, and the report after the last one
ClearViaApi_DeleteNodes(r, numUids) ==
    /\ pc = "delete_nodes"
    /\ LET batch_uids == BatchUids(loc.node_uids, loc.i, ToolBatchSize)
           a == ToolAnswer("deleteNode", r, numUids)
           l == [loc EXCEPT !.i = loc.i + ToolBatchSize,
                            !.answers = Append(loc.answers, a),
                            !.total_nodes_deleted =
                                Accumulate(loc.total_nodes_deleted, a.success, numUids)]
       IN /\ numUids <= Len(batch_uids)
          /\ log' = Append(log, ToolRequest("/mutate", "POST", call.tenant_id,
                                            "deleteNode", batch_uids, NoPayload))
          /\ IF a.success /\ ~a.is_dict
             THEN ToolGoto([pc |-> "exited",
                            loc |-> [loc EXCEPT !.answers = Append(loc.answers, a)],
                            result |-> ClearReturns(FALSE)])
             ELSE IF l.i < Len(loc.node_uids)
             THEN ToolGoto([pc |-> "delete_nodes", loc |-> l, result |-> NoResult])
             ELSE ToolGoto([pc |-> "exited", loc |-> l,
                            result |-> ClearReturns(ReportOutcome(l))])
    /\ UNCHANGED <<backend, context, namespace_cache, call, prev, calls>>

InitTool ==
    /\ Constructed(Null, Null)
    /\ namespace_cache = [t \in TenantIds |-> Null]
    /\ pc = "idle" /\ call = NoCall /\ loc = NoToolLocals /\ log = <<>>
    /\ result = NoResult /\ prev = NoPrev /\ calls = 0
    /\ nodes = [ns \in Namespaces |-> {}]
    /\ edges = [ns \in Namespaces |-> {}]

NextTool ==
    \/ \E tenant_id \in {"default", "acme"}, enable_drop_all \in BOOLEAN,
          confirm_namespace \in {Null, "0x1"}, admin_api_key \in {Null, "key"} :
          Main_Call(tenant_id, enable_drop_all, confirm_namespace, admin_api_key)
    \/ \E r \in ToolResponses, body \in ToolStatusBodies : Main_Detect(r, body)
    \/ \E r \in ToolResponses, results_ok \in BOOLEAN : DropAllDataViaApi(r, results_ok)
    \/ \E r \in ToolResponses, items \in ToolLists : ClearViaApi_QueryNodes(r, items)
    \/ \E r \in ToolResponses, items \in ToolLists : ClearViaApi_QueryEdges(r, items)
    \/ \E r \in ToolResponses, numUids \in 0..ToolBatchSize :
          ClearViaApi_DeleteEdges(r, numUids)
    \/ \E r \in ToolResponses, numUids \in 0..ToolBatchSize :
          ClearViaApi_DeleteNodes(r, numUids)

SpecTool == InitTool /\ [][NextTool]_vars

----------------------------------------------------------------------------
(* BaseTool.run *)

\* what a step of run can raise: the user's interrupt, the library's errors, an
\* error of another class, and the exit request of sys.exit()
RunRaises ==
    {"KeyboardInterrupt", "AuthenticationError", "TenantNotFoundError", "APIError",
     "NamespaceError", "ValidationError", "RuntimeError", "SystemExit"}

\* `except Exception` (the library's errors all derive from MIMSError, errors.py)
IsException(exc) == exc \notin {"KeyboardInterrupt", "SystemExit"}

\* variant: an interrupt is handled as any other failure
RunHandler_NoInterrupt(r) ==
    IF ~Raised(r, r.exc) THEN r
    ELSE IF r.exc = "SystemExit" THEN r ELSE Return(1)

\* lines 185-206: what run does with the outcome r of its try block
RunHandler(r) ==
    IF ~Raised(r, r.exc) THEN r
    ELSE IF r.exc = "KeyboardInterrupt" THEN Return(130)
    ELSE IF IsException(r.exc) THEN Return(1)
    ELSE r

\* failure: what ended the try block ("none", "validation", "missing tenant", or
\* the class of the error raised); code: what execute returned
NoRunLocals == [failure |-> "none", code |-> -1]

RunArgs(tenant_id, api_key, verbose) ==
    [op |-> "run", tenant_id |-> tenant_id, api_key |-> api_key, verbose |-> verbose]

\* lines 118-133: validate_args
ValidateArgs(args) ==
    IF ~Truthy(args.api_key) THEN FALSE
    ELSE Returned(ValidateTenantId(args.tenant_id))

\* lines 171-183: the step after a step that went through
RunNextPc(after, args) ==
    IF after = "validate" /\ args.verbose THEN "show_context"
    ELSE IF after \in {"validate", "show_context"} /\ args.tenant_id # "default"
    THEN "tenant_exists"
    ELSE "execute"

\* the try block ends with outcome r, for the reason failure
RunEnds(r, failure) ==
    /\ pc' = "returned"
    /\ result' = RunHandler(r)
    /\ loc' = [loc EXCEPT !.failure = failure]

\* lines 160-169: parse_args (--test stands for --tenant-id test-tenant), setup,
\* validate_args; raised is what setup raised, "none" if nothing
Run_Call(tenant_id, test, api_key, verbose, raised) ==
    /\ pc = "idle"
    /\ calls < MaxRunCalls
    /\ calls' = calls + 1
    /\ LET args == RunArgs(IF test THEN "test-tenant" ELSE tenant_id, api_key, verbose)
       IN /\ call' = args
          /\ client_tenant_id' = args.tenant_id
          /\ ops_tenant_id' = args.tenant_id
          /\ IF raised # "none"
             THEN /\ pc' = "returned"
                  /\ result' = RunHandler(Raise(raised, <<raised>>))
                  /\ loc' = [NoRunLocals EXCEPT !.failure = raised]
             ELSE IF ~ValidateArgs(args)
             THEN /\ pc' = "returned"
                  /\ result' = Return(1)
                  /\ loc' = [NoRunLocals EXCEPT !.failure = "validation"]
             ELSE /\ pc' = RunNextPc("validate", args)
                  /\ result' = NoResult
                  /\ loc' = NoRunLocals
    /\ log' = <<>>
    /\ namespace_cache' = [t \in AllTenantIds |-> Null]
    /\ UNCHANGED <<backend, prev>>

\* the user interrupts a running step
Run_Interrupt ==
    /\ pc \in {"show_context", "tenant_exists", "execute"}
    /\ RunEnds(Raise("KeyboardInterrupt", <<>>), "KeyboardInterrupt")
    /\ UNCHANGED <<backend, context, namespace_cache, call, log, prev, calls>>

\* lines 217-230: show_context
Run_ShowContext(s, g) ==
    /\ pc = "show_context"
    /\ LET capabilities == GetSystemCapabilities(s)
           n == GetTenantNamespace(namespace_cache, call.tenant_id, TRUE, g)
           resolves == Returned(capabilities) /\ capabilities.value.namespaces_supported
           fails == resolves /\ ~Returned(n.result)
                             /\ ~Raised(n.result, "TenantNotFoundError")
       IN /\ log' = log \o <<StatusRequest>>
                        \o (IF resolves /\ n.asked
                            THEN <<LookupRequest(call.tenant_id, client_tenant_id)>>
                            ELSE <<>>)
          /\ namespace_cache' = IF resolves THEN n.cache ELSE namespace_cache
          /\ IF ~Returned(capabilities) THEN RunEnds(capabilities, capabilities.exc)
             ELSE IF fails THEN RunEnds(n.result, n.result.exc)
             ELSE /\ pc' = RunNextPc("show_context", call)
                  /\ UNCHANGED <<result, loc>>
    /\ UNCHANGED <<backend, context, call, prev, calls>>

\* lines 176-180
Run_TenantExists(g) ==
    /\ pc = "tenant_exists"
    /\ LET e == TenantExists(namespace_cache, call.tenant_id, g)
       IN /\ log' = IF e.asked
                    THEN Append(log, LookupRequest(call.tenant_id, client_tenant_id))
                    ELSE log
          /\ namespace_cache' = e.cache
          /\ IF ~Returned(e.result) THEN RunEnds(e.result, e.result.exc)
             ELSE IF ~e.result.value THEN RunEnds(Return(1), "missing tenant")
             ELSE /\ pc' = RunNextPc("tenant_exists", call)
                  /\ UNCHANGED <<result, loc>>
    /\ UNCHANGED <<backend, context, call, prev, calls>>

ExitCodes == {0, 1, 2}

\* line 183: execute returns code
Run_ExecuteReturns(code) ==
    /\ pc = "execute"
    /\ pc' = "returned"
    /\ result' = RunHandler(Return(code))
    /\ loc' = [loc EXCEPT !.code = code]
    /\ UNCHANGED <<backend, context, namespace_cache, call, log, prev, calls>>

\* line 183: execute raises exc
Run_ExecuteRaises(exc) ==
    /\ pc = "execute"
    /\ RunEnds(Raise(exc, <<exc>>), exc)
    /\ UNCHANGED <<backend, context, namespace_cache, call, log, prev, calls>>

InitRun ==
    /\ Constructed(Null, Null)
    /\ namespace_cache = [t \in AllTenantIds |-> Null]
    /\ pc = "idle" /\ call = NoCall /\ loc = NoRunLocals /\ log = <<>>
    /\ result = NoResult /\ prev = NoPrev /\ calls = 0
    /\ nodes = [ns \in Namespaces |-> {}]
    /\ edges = [ns \in Namespaces |-> {}]

NextRun ==
    \/ \E tenant_id \in {"default", "acme", "bad id", ""}, test \in BOOLEAN,
          api_key \in {"", "key"}, verbose \in BOOLEAN,
          raised \in {"none", "KeyboardInterrupt", "RuntimeError"} :
          Run_Call(tenant_id, test, api_key, verbose, raised)
    \/ Run_Interrupt
    \/ \E s \in StatusResponses, g \in RegistryResponses : Run_ShowContext(s, g)
    \/ \E g \in RegistryResponses : Run_TenantExists(g)
    \/ \E code \in ExitCodes : Run_ExecuteReturns(code)
    \/ \E exc \in RunRaises : Run_ExecuteRaises(exc)

SpecRun == InitRun /\ [][NextRun]_vars

----------------------------------------------------------------------------
(* set_tenant_context and clear_tenant_context, of DgraphOperations and of the
   APIClient it wraps *)

\* variant: the wrapped client is left as it is
SetTenantContext_OwnOnly(tenant_id, client) == [ops |-> tenant_id, client |-> client]

\* dgraph_ops.py 379-382: the tenant_id of the operations and of their client
\* after set_tenant_context(tenant_id)
SetTenantContext(tenant_id, client) == [ops |-> tenant_id, client |-> tenant_id]

\* the call is recorded in log: the object called (on), the method, its argument
ContextCall(on, op, tenant_id) == [on |-> on, op |-> op, tenant_id |-> tenant_id]

ContextStep(c) ==
    /\ pc = "idle"
    /\ calls < MaxContextCalls
    /\ calls' = calls + 1
    /\ log' = Append(log, c)
    /\ UNCHANGED <<backend, namespace_cache, pc, call, loc, result, prev>>

Ops_SetTenantContext(tenant_id) ==
    /\ ContextStep(ContextCall("ops", "set_tenant_context", tenant_id))
    /\ ops_tenant_id' = SetTenantContext(tenant_id, client_tenant_id).ops
    /\ client_tenant_id' = SetTenantContext(tenant_id, client_tenant_id).client

Ops_ClearTenantContext ==
    /\ ContextStep(ContextCall("ops", "clear_tenant_context", Null))
    /\ ops_tenant_id' = Null
    /\ client_tenant_id' = Null

Client_SetTenantContext(tenant_id) ==
    /\ ContextStep(ContextCall("client", "set_tenant_context", tenant_id))
    /\ client_tenant_id' = tenant_id
    /\ UNCHANGED ops_tenant_id

Client_ClearTenantContext ==
    /\ ContextStep(ContextCall("client", "clear_tenant_context", Null))
    /\ client_tenant_id' = Null
    /\ UNCHANGED ops_tenant_id

InitContext ==
    /\ \E client_arg \in {Null, "default"}, ops_arg \in {Null, "test-tenant"} :
          Constructed(client_arg, ops_arg)
    /\ namespace_cache = [t \in TenantIds |-> Null]
    /\ pc = "idle" /\ call = NoCall /\ loc = NoLocals /\ log = <<>>
    /\ result = NoResult /\ prev = NoPrev /\ calls = 0
    /\ nodes = [ns \in Namespaces |-> {}]
    /\ edges = [ns \in Namespaces |-> {}]

NextContext ==
    \/ \E tenant_id \in TenantIds \cup {Null} : Ops_SetTenantContext(tenant_id)
    \/ Ops_ClearTenantContext
    \/ \E tenant_id \in TenantIds \cup {Null} : Client_SetTenantContext(tenant_id)
    \/ Client_ClearTenantContext

SpecContext == InitContext /\ [][NextContext]_vars

----------------------------------------------------------------------------
(* Properties of drop_all_data *)

InDrop == call.op = "drop_all_data"
DropRequests == {k \in DOMAIN log : log[k].endpoint = "/admin/dropAll"}
\* the namespace the effective tenant resolved to (Null: not resolved)
ResolvedNamespace == namespace_cache[call.effective_tenant_id]
MultiTenantDrop == InDrop /\ loc.namespaces_supported

\* C1: against a backend that reports namespaces_supported, drop_all_data without
\* confirm_namespace never sends /admin/dropAll and always fails; once the
\* effective tenant has resolved to a namespace, it fails with NamespaceError and
\* the message contains that namespace token.
C1_ConfirmationRequired ==
    (MultiTenantDrop /\ ~Truthy(call.confirm_namespace)) =>
        /\ DropRequests = {}
        /\ pc # "send"
        /\ pc = "idle" => result.status = "raise"
        /\ (pc = "idle" /\ ResolvedNamespace # Null) =>
              /\ Raised(result, "NamespaceError")
              /\ Contains(result.msg, ResolvedNamespace)
              /\ Contains(result.msg,
                   "Namespace confirmation required for safety. Add --confirm-namespace ")

C1_Witness ==
    /\ pc = "idle" /\ MultiTenantDrop
    /\ call.confirm_namespace = Null
    /\ call.effective_tenant_id = "acme"
    /\ Raised(result, "NamespaceError")
    /\ Contains(result.msg, "0x2")

\* C2: against a multi-tenant backend, a confirm_namespace that differs from the
\* namespace the tenant resolved to makes drop_all_data fail with NamespaceError
\* (the mismatch message when a value was given) and no /admin/dropAll is sent.
C2_ConfirmationMismatch ==
    (MultiTenantDrop /\ ResolvedNamespace # Null
       /\ call.confirm_namespace # ResolvedNamespace) =>
        /\ DropRequests = {}
        /\ pc # "send"
        /\ pc = "idle" =>
              /\ Raised(result, "NamespaceError")
              /\ Truthy(call.confirm_namespace) =>
                    /\ Contains(result.msg, "Namespace confirmation mismatch. Expected '")
                    /\ Contains(result.msg, ResolvedNamespace)

C2_Witness ==
    /\ pc = "idle" /\ MultiTenantDrop
    /\ call.effective_tenant_id = "test-tenant"
    /\ call.confirm_namespace \in {"0x0", "0x99"}
    /\ ResolvedNamespace = "0x1"
    /\ Raised(result, "NamespaceError")
    /\ DropRequests = {}

\* C3 (as claimed): when the status query failed or told nothing about the
\* capabilities, drop_all_data with an absent or non-matching confirm_namespace
\* sends no /admin/dropAll request.
C3_NoDropWithoutCapabilityInfo ==
    (InDrop /\ loc.status_info \in {"failed", "absent"}
       /\ \/ ~Truthy(call.confirm_namespace)
          \/ /\ call.effective_tenant_id \in DOMAIN STANDARD_TENANTS
             /\ call.confirm_namespace # STANDARD_TENANTS[call.effective_tenant_id]) =>
        DropRequests = {}

\* the dropAll request was answered without error, with a JSON object whose
\* results, if any, are JSON objects
DropAnswered == loc.drop_answer.outcome = "ok"
ReportedResults == [py |-> "dict", items |-> loc.drop_answer.results]

----------------------------------------------------------------------------
(* Properties of clear_namespace_data *)

InClear == call.op = "clear_namespace_data"
TargetNamespace == BackendNamespace(call.effective_tenant_id)
DeleteRequests == {k \in DOMAIN log : log[k].endpoint = "/mutate"}

\* C5: while clear_namespace_data runs for a tenant, no step changes the nodes or
\* the edges of any other tenant's namespace, whatever the backend answers.
C5_OtherNamespacesUntouched ==
    [][call'.op = "clear_namespace_data" =>
          \A ns \in Namespaces \ {BackendNamespace(call'.effective_tenant_id)} :
              nodes'[ns] = nodes[ns] /\ edges'[ns] = edges[ns]]_vars

C5_Witness ==
    /\ pc = "idle" /\ InClear /\ Returned(result)
    /\ call.effective_tenant_id = "test-tenant"
    /\ Len(loc.node_uids) = MaxNode
    /\ nodes["0x1"] = {} /\ edges["0x1"] = {}
    /\ nodes["0x0"] = NodeIds /\ nodes["0x2"] = 1..2

\* C6 (as claimed): when clear_namespace_data has returned True, the target
\* tenant's namespace holds no node and no edge.
C6_SuccessMeansEmpty ==
    (pc = "idle" /\ InClear /\ Returned(result)) =>
        nodes[TargetNamespace] = {} /\ edges[TargetNamespace] = {}

\* C7: in the request log of clear_namespace_data every edge-delete batch comes
\* before every node-delete batch, and once a node-delete batch has been issued
\* the edge-delete batches issued cover all the queried edges.
C7_EdgesBeforeNodes ==
    InClear =>
        /\ \A j, k \in DOMAIN log :
              (log[j].op = "deleteEdge" /\ log[k].op = "deleteNode") => j < k
        /\ (\E k \in DOMAIN log : log[k].op = "deleteNode") =>
              AllSent("deleteEdge") = loc.edge_uids

C7_Witness ==
    /\ pc = "idle" /\ InClear
    /\ Cardinality({k \in DOMAIN log : log[k].op = "deleteEdge"}) = 2
    /\ Cardinality({k \in DOMAIN log : log[k].op = "deleteNode"}) >= 2

\* C8 (as claimed): every request of a clear_namespace_data invocation, the tenant
\* lookup included, carries X-Tenant-Id equal to the effective tenant.
C8_EveryRequestScoped ==
    InClear => \A k \in DOMAIN log : log[k].xtenant = call.effective_tenant_id

\* C9 (as claimed): a failed delete batch does not abort clear_namespace_data: once
\* a delete batch has been issued, the call ends with every edge batch and every
\* node batch issued, and succeeds.
C9_FailedBatchDoesNotAbort ==
    (pc = "idle" /\ InClear /\ DeleteRequests # {}) =>
        /\ AllSent("deleteEdge") = loc.edge_uids
        /\ AllSent("deleteNode") = loc.node_uids
        /\ Returned(result)

\* C10: a clear whose node query was answered with zero nodes issues no delete
\* request and returns True at once; and a clear that directly follows a fully
\* successful clear of the same tenant (one that returned True with every queried
\* identifier sent for deletion) issues no delete request.
C10_EmptyNamespaceNoDeletes ==
    /\ (InClear /\ loc.queried = "nodes" /\ loc.node_uids = <<>>) =>
          /\ DeleteRequests = {}
          /\ pc = "idle" /\ result = Return(PyTrue)
    /\ (InClear /\ prev.op = "clear_namespace_data" /\ prev.ok /\ prev.all_sent
          /\ prev.tenant = call.effective_tenant_id) =>
          DeleteRequests = {}

C10_Witness ==
    /\ pc = "idle" /\ InClear
    /\ prev.op = "clear_namespace_data" /\ prev.ok /\ prev.all_sent
    /\ prev.tenant = "test-tenant" /\ call.effective_tenant_id = "test-tenant"
    /\ loc.queried = "nodes" /\ loc.node_uids = <<>>
    /\ result = Return(PyTrue)
    /\ DeleteRequests = {}

SingleTenantDrop ==
    /\ InDrop /\ pc # "capabilities"
    /\ loc.status_info # "malformed" /\ ~loc.namespaces_supported

\* C12: when the capabilities say namespaces_supported is false, drop_all_data
\* goes from the status request straight to the one /admin/dropAll request, for
\* every tenant id and confirm_namespace: the confirmation step is never entered,
\* no tenant lookup is sent, no confirmation error is raised, and the payload
\* carries confirm_namespace as given.
C12_SingleTenantDropsDirectly ==
    SingleTenantDrop =>
        /\ pc \in {"send", "idle"}
        /\ \A k \in DOMAIN log : log[k].endpoint # "/tenants/{id}"
        /\ pc = "send" => log = <<StatusRequest>>
        /\ pc = "idle" =>
              /\ Len(log) = 2 /\ log[1] = StatusRequest
              /\ log[2].endpoint = "/admin/dropAll"
              /\ log[2].payload = DropPayload(call.target, call.confirm_namespace)
              /\ \/ result = Return(PyTrue)
                 \/ /\ Raised(result, "NamespaceError")
                    /\ Contains(result.msg, "DropAll operation failed: ")

C12_Witness ==
    /\ SingleTenantDrop /\ pc = "idle"
    /\ loc.status_info = "reported"
    /\ call.effective_tenant_id = "bad id" /\ call.confirm_namespace = "0x99"
    /\ Cardinality(DropRequests) = 1
    /\ result = Return(PyTrue)

\* C25: for every batch_size >= 1, once both queries are answered, the delete
\* requests of the call partition the queried lists: each identifier is sent in
\* exactly one request, in query order, and no request carries more than
\* batch_size identifiers, for edges and for nodes alike
C25_BatchesPartition ==
    (InClear /\ pc = "idle" /\ call.batch_size >= 1 /\ loc.queried = "edges") =>
       /\ AllSent("deleteEdge") = loc.edge_uids
       /\ AllSent("deleteNode") = loc.node_uids
       /\ \A k \in DeleteRequests : Len(log[k].uids) <= call.batch_size

QueryRequests == {k \in DOMAIN log : log[k].endpoint = "/query"}

\* C26: when the node query or the edge query fails, no delete request is issued
\* and the call fails with NamespaceError; and every failure after the tenant
\* validation is a NamespaceError
C26_QueryFailureIsNamespaceError ==
    (InClear /\ pc = "idle" /\ QueryRequests # {} /\ ~Returned(result)) =>
       /\ Raised(result, "NamespaceError")
       /\ (loc.queried # "edges" => DeleteRequests = {})

C26_Witness ==
    /\ InClear /\ pc = "idle"
    /\ loc.queried = "nodes" /\ Len(loc.node_uids) > 0
    /\ Cardinality(QueryRequests) = 2
    /\ Raised(result, "NamespaceError")
    /\ DeleteRequests = {}

----------------------------------------------------------------------------
(* Properties of TenantUtils *)

InResolve == call.op = "get_tenant_namespace"
InExists == call.op = "tenant_exists"
LookupRequests == {k \in DOMAIN log : log[k].endpoint = "/tenants/{id}"}

\* the tenant id contains a space, tab, newline, '/', '\', '?' or '#'
HasRejectedChar(tenant_id) ==
    IdChars(tenant_id) \cap {" ", "\t", "\n", "/", "\\", "?", "#"} # {}

\* C13: get_tenant_namespace on a tenant id containing a space, tab, newline, '/',
\* '\', '?' or '#' ends with ValidationError, with no request sent and the
\* namespace cache as it was.
C13_InvalidIdRejected ==
    [][(InResolve /\ pc = "resolve" /\ HasRejectedChar(call.tenant_id)) =>
          /\ pc' = "idle" /\ Raised(result', "ValidationError")
          /\ log' = <<>>
          /\ namespace_cache' = namespace_cache]_vars

C13_Witness ==
    /\ InResolve /\ pc = "idle" /\ call.tenant_id = "a#b"
    /\ Raised(result, "ValidationError")
    /\ log = <<>>
    /\ namespace_cache["acme"] = "0x2"

\* C14: a get_tenant_namespace call with the cache enabled that directly follows a
\* successful get_tenant_namespace call for the same tenant on the same instance
\* returns the same token and sends no registry request, whatever the registry
\* would answer now; and "default" always resolves to "0x0" without a request.
C14_SecondResolutionFromCache ==
    /\ (InResolve /\ pc = "idle" /\ call.use_cache
          /\ prev.op = "get_tenant_namespace" /\ prev.ok
          /\ prev.tenant = call.tenant_id) =>
          /\ result = Return(prev.value)
          /\ LookupRequests = {}
    /\ (InResolve /\ pc = "idle" /\ call.tenant_id = "default") =>
          /\ result = Return("0x0")
          /\ LookupRequests = {}

C14_Witness ==
    /\ InResolve /\ pc = "idle" /\ call.use_cache
    /\ prev.op = "get_tenant_namespace" /\ prev.ok
    /\ prev.tenant = "acme" /\ call.tenant_id = "acme"
    /\ prev.value = "0x3" /\ result = Return("0x3")
    /\ log = <<>>

\* C24: with no clear_namespace_cache in between, a successful get_tenant_namespace
\* call returns the token the previous successful call for the same tenant
\* returned, whatever use_cache is passed and whatever the registry answers
C24_OneNamespacePerTenant ==
    (InResolve /\ pc = "idle" /\ Returned(result)
       /\ prev.op = "get_tenant_namespace" /\ prev.ok
       /\ prev.tenant = call.tenant_id) =>
       result.value = prev.value

\* C15 (as claimed): whenever get_tenant_namespace asked the registry and the
\* answer yielded no namespace (an error response of any kind, a transport
\* failure, or a body without a namespace), it fails with TenantNotFoundError
\* carrying the tenant id.
C15_NoNamespaceMeansNotFound ==
    (InResolve /\ pc = "idle" /\ loc.lookup \notin {"none", "not asked", "found"}) =>
        result = Raise("TenantNotFoundError", <<"Tenant '", call.tenant_id, "' not found">>)

\* C16 (as claimed): tenant_exists always returns a boolean, which is true exactly
\* when its get_tenant_namespace did not fail with TenantNotFoundError.
C16_ExistsIsTotal ==
    (InExists /\ pc = "idle") =>
        /\ Returned(result)
        /\ result.value \in BOOLEAN
        /\ result.value <=> ~Raised(loc.resolved, "TenantNotFoundError")

\* C16 (amended): tenant_exists returns True exactly when its get_tenant_namespace
\* returned a namespace, returns False exactly when that failed with
\* TenantNotFoundError, and otherwise fails with the error get_tenant_namespace
\* raised.
C16_ExistsFollowsResolution ==
    (InExists /\ pc = "idle") =>
        /\ Returned(loc.resolved) <=> result = Return(TRUE)
        /\ Raised(loc.resolved, "TenantNotFoundError") <=> result = Return(FALSE)
        /\ ~Returned(result) => result = loc.resolved

C16_Witness ==
    /\ InExists /\ pc = "idle" /\ call.tenant_id = "acme"
    /\ loc.lookup = "AuthenticationError"
    /\ Raised(result, "AuthenticationError")
    /\ result = loc.resolved

\* the record get_system_capabilities returns on a failure
ConservativeDefaults ==
    [enterprise |-> FALSE, multi_tenant |-> FALSE, namespaces_supported |-> FALSE,
     mode |-> "oss"]

\* C17 (as claimed): get_system_capabilities returns a capabilities record for
\* every outcome of the status request, and the conservative defaults whenever
\* the request failed or its body is not a JSON object.
C17_CapabilitiesNeverRaise ==
    (call.op = "get_system_capabilities" /\ pc = "idle") =>
        /\ Returned(result)
        /\ loc.status_info \in {"failed", "malformed"} =>
              result.value = ConservativeDefaults


----------------------------------------------------------------------------
(* Properties of APIClient.request *)

\* a request has been answered and classified
RequestDone == call.op = "request" /\ pc = "idle"

GraphQLEndpoint == call.endpoint \in {"/query", "/mutate"}

Is2xx(r) == r.net = "ok" /\ r.status >= 200 /\ r.status < 300

\* C18: a 401 answer always fails with AuthenticationError; any other status of
\* 400 or more, a timeout and a connection failure always fail with APIError,
\* whatever the endpoint and the body
C18_StatusFailuresClassified ==
    RequestDone =>
      /\ (loc.response.net = "ok" /\ loc.response.status = 401
            => Raised(result, "AuthenticationError"))
      /\ (\/ loc.response.net \in {"timeout", "conn"}
          \/ loc.response.net = "ok" /\ loc.response.status >= 400
                                     /\ loc.response.status # 401
            => Raised(result, "APIError"))

\* C19: a 2xx answer on /query or /mutate fails with GraphQLError exactly when
\* its body holds a non-empty errors array
C19_GraphQLErrorIffNonEmptyErrors ==
    RequestDone /\ GraphQLEndpoint /\ Is2xx(loc.response) =>
      (Raised(result, "GraphQLError")
         <=> IsDict(loc.response) /\ loc.response.errors \in {"some", "strings"})

\* C20 as claimed: a body is returned only for a 2xx answer without a non-empty
\* errors array on /query and /mutate and without success false, and success
\* false always fails with APIError
C20_BodyOnlyFor2xx ==
    RequestDone =>
      /\ (Returned(result) =>
            /\ Is2xx(loc.response)
            /\ ~(GraphQLEndpoint /\ IsDict(loc.response)
                   /\ loc.response.errors \in {"some", "strings"})
            /\ ~(IsDict(loc.response) /\ loc.response.success = "false"))
      /\ (IsDict(loc.response) /\ loc.response.net = "ok"
            /\ loc.response.success = "false" => Raised(result, "APIError"))

\* C20: a body is returned only for an answer of status below 400 that carries
\* no errors key on /query and /mutate and no success false; a body with success
\* false is never returned, and fails with APIError unless the 401 check or the
\* errors check of /query and /mutate fails the request first
C20_BodyOnlyWithoutErrorFields ==
    RequestDone =>
      /\ (Returned(result) =>
            /\ loc.response.net = "ok" /\ loc.response.status < 400
            /\ result.value = loc.response
            /\ ~(GraphQLEndpoint /\ IsDict(loc.response)
                   /\ HasKey(loc.response, "errors"))
            /\ ~(IsDict(loc.response) /\ loc.response.success = "false"))
      /\ (IsDict(loc.response) /\ loc.response.net = "ok"
            /\ loc.response.success = "false" =>
            /\ ~Returned(result)
            /\ (\/ loc.response.status = 401
                \/ /\ loc.response.status < 400 /\ GraphQLEndpoint
                   /\ HasKey(loc.response, "errors")
                \/ Raised(result, "APIError")))

C20_Witness ==
    /\ RequestDone
    /\ call.endpoint = "/admin/dropAll"
    /\ Is2xx(loc.response) /\ IsDict(loc.response)
    /\ loc.response.success = "false"
    /\ Raised(result, "APIError")


\* the request sent by the answered call
SentRequest == log[Len(log)]

\* C21: a request made with a tenant_id carries an X-Tenant-Id header equal to
\* that tenant_id, whatever extra_headers and the default tenant context are
C21_TenantHeaderKept ==
    RequestDone /\ Truthy(call.tenant_id) => SentRequest.xtenant = call.tenant_id


----------------------------------------------------------------------------
(* Properties of the drop_data.py command *)

InTool == call.op = "drop_data.py"

DropAllSent == \E k \in DOMAIN log : log[k].endpoint = "/admin/dropAll"

\* C22: the command sends /admin/dropAll only when --enable-drop-all was passed;
\* a run without the flag goes to the namespace-scoped deletion and never to
\* dropAll
C22_DropAllOnlyWhenEnabled ==
    InTool /\ ~call.enable_drop_all => ~DropAllSent /\ pc # "dropAll"


\* clear_namespace_data_via_api has returned
ClearViaApiDone == InTool /\ pc = "exited" /\ ~DropAllSent /\ Len(log) >= 2

RECURSIVE CountOf(_, _)
\* the numUids of the successful answers to op among answers, those whose body
\* could be read
CountOf(op, answers) ==
    IF answers = <<>> THEN 0
    ELSE LET a == answers[Len(answers)]
         IN CountOf(op, SubSeq(answers, 1, Len(answers) - 1))
              + (IF a.op = op /\ a.success /\ a.is_dict THEN a.numUids ELSE 0)

FailedAnswer(op) ==
    \E k \in DOMAIN loc.answers : loc.answers[k].op = op /\ ~loc.answers[k].success

\* C27: in clear_namespace_data_via_api a failed delete batch does not stop
\* processing: when no delete request was answered with a success whose body
\* cannot be read, the function ends with every edge batch and every node batch
\* issued; and each total is the sum of the counts of the successful batches
C27_FailedBatchContinues ==
    InTool =>
      /\ (loc.total_edges_deleted # Unbound =>
            loc.total_edges_deleted = CountOf("deleteEdge", loc.answers))
      /\ (loc.total_nodes_deleted # Unbound =>
            loc.total_nodes_deleted = CountOf("deleteNode", loc.answers))
      /\ (/\ pc = "exited" /\ loc.answers # <<>>
          /\ \A k \in DOMAIN loc.answers :
                loc.answers[k].success => loc.answers[k].is_dict)
           => /\ AllSent("deleteEdge") = Uids(loc.edges)
              /\ AllSent("deleteNode") = Uids(loc.nodes)

C27_Witness ==
    /\ ClearViaApiDone
    /\ FailedAnswer("deleteEdge") /\ FailedAnswer("deleteNode")
    /\ Len(loc.edge_uids) > ToolBatchSize /\ ~loc.answers[1].success
    /\ Len(loc.node_uids) > ToolBatchSize
    /\ AllSent("deleteEdge") = loc.edge_uids
    /\ AllSent("deleteNode") = loc.node_uids
    /\ loc.total_nodes_deleted > 0
    /\ result = Exit(0)

\* C29: clear_namespace_data_via_api returns True whenever the node query and
\* the edge query succeed and every delete request issued succeeds, whatever the
\* namespace holds
C29_SuccessfulClearReturnsTrue ==
    (/\ ClearViaApiDone /\ loc.nodes # <<>> /\ loc.edges_queried
     /\ \A k \in DOMAIN loc.answers :
           loc.answers[k].success /\ loc.answers[k].is_dict)
      => result = Exit(0)


----------------------------------------------------------------------------
(* Properties of BaseTool.run *)

RunDone == call.op = "run" /\ pc = "returned"

\* C23: run propagates no error raised during setup, validation or execute: it
\* returns 130 when the user interrupts, 1 for every other failure (an error of
\* any class, failed validation, missing tenant), and otherwise what execute
\* returned; sys.exit() inside a step is an exit request, not an error
C23_RunReturnsExitCode ==
    RunDone /\ loc.failure # "SystemExit" =>
      /\ Returned(result)
      /\ result.value = (IF loc.failure = "KeyboardInterrupt" THEN 130
                         ELSE IF loc.failure # "none" THEN 1
                         ELSE loc.code)

C23_Witness ==
    /\ RunDone
    /\ loc.failure = "KeyboardInterrupt"
    /\ Len(log) > 0
    /\ result = Return(130)


----------------------------------------------------------------------------
(* Properties of the tenant context *)

LastContextCall == log[Len(log)]

\* C28: after a set_tenant_context or clear_tenant_context call on the
\* operations, their tenant_id and the tenant_id of the wrapped client both equal
\* the value set (None after a clear); after such a call on the client, the
\* client's tenant_id equals the value set
C28_ContextsAgree ==
    log # <<>> =>
      /\ client_tenant_id = LastContextCall.tenant_id
      /\ (LastContextCall.on = "ops" =>
            /\ ops_tenant_id = LastContextCall.tenant_id
            /\ ops_tenant_id = client_tenant_id)

C28_Witness ==
    /\ Len(log) = 3
    /\ log[1] = ContextCall("ops", "set_tenant_context", "test-tenant")
    /\ log[2].op = "clear_tenant_context"
    /\ log[3] = ContextCall("ops", "set_tenant_context", "acme")
    /\ ops_tenant_id = "acme" /\ client_tenant_id = "acme"

====
